---- MODULE Spec2Model ----
(***************************************************************************)
(* FocusTask board (src/src/App.tsx): the TrelloBoard component's state,   *)
(* its event handlers and the useLocalStorage hook behind them.            *)
(*                                                                         *)
(* A Board held in memory is a JavaScript value: [k |-> "arr", v |-> s]    *)
(* for an array s of Sections, [k |-> "obj", v |-> <<>>] for a parsed      *)
(* snapshot whose top level is an object.  A Section is a record           *)
(* [id, title, columns], a Column [id, title, tasks], a Task               *)
(* [id, title, completed].  A nullable value is a sequence of length 0     *)
(* (null) or 1.  A text (slot content, file content) is a sequence of      *)
(* JSON tokens.                                                            *)
(***************************************************************************)
EXTENDS Integers, Sequences, FiniteSets, TLC

VARIABLES
    sections,        \* storedValue of useLocalStorage: the in-memory Board
    slot,            \* window.localStorage["trello-sections"]
    draggedTask,     \* pending drag: null or {task, fromSection, fromColumn}
    editingSection,  \* id of the Section whose title is being edited, or null
    editingColumn,   \* id of the Column whose title is being edited, or null
    editingTask,     \* id of the Task whose title is being edited, or null
    reading,         \* FileReader reads in flight: texts whose onload is due
    now,             \* the latest reading of the clock (Date.now())
    out,             \* what the last handler did besides changing the state
    prev,            \* sections, draggedTask, lastWrite as the last handler found them
    lastWrite,       \* outcome of the most recent localStorage.setItem
    retired,         \* the ids of the Sections, Columns and Tasks that left the Board
    steps,           \* number of handler calls so far, drag starts aside
    drags,           \* number of drags started so far
    copiedSection,   \* id of the Section shown as copied, or null
    writing,         \* navigator.clipboard.writeText calls in flight
    clipboard,       \* the text on the clipboard, or null before any write
    timers,          \* pending setTimeout callbacks: the time each is due
    clock,           \* seconds since the component was mounted
    copied,          \* the most recent successful copy: its Section and time
    copies,          \* number of copySectionAsMarkdown calls so far
    downloads        \* the files exportData has saved, each with the Board it is of

\* the state of the copied indicator, the clipboard and the saved files
aside == <<copiedSection, writing, clipboard, timers, clock, copied, copies, downloads>>

vars == <<sections, slot, draggedTask, editingSection, editingColumn,
          editingTask, reading, now, out, prev, lastWrite, retired, steps, drags,
          copiedSection, writing, clipboard, timers, clock, copied, copies, downloads>>

----------------------------------------------------------------------------
(* Bounds of the model *)

MaxSteps == 2       \* handler calls in one session, drag starts aside
MaxDrags == 1       \* drags started in one session
MaxTicks == 1       \* milliseconds the clock advances in one session
MaxCopies == 2      \* copySectionAsMarkdown calls in one session
MaxClock == 3       \* seconds the clock runs
MaxExports == 1     \* files exportData saves in one session
MaxReads == 1       \* file reads in flight at once
StartTime == 1000   \* Date.now() when the component mounts

----------------------------------------------------------------------------
(* JavaScript arrays and nullable values *)

Null == <<>>
Some(x) == <<x>>
IsNull(o) == o = <<>>
Val(o) == o[1]

Arr(s) == [k |-> "arr", v |-> s]
NonArrayObject == [k |-> "obj", v |-> <<>>]
IsArray(b) == b.k = "arr"             \* Array.isArray, also what .map needs

\* Array.prototype.map with the callback given as an operator
Map(F(_), s) == [i \in 1..Len(s) |-> F(s[i])]

\* Array.prototype.filter
Filter(s, Keep(_)) == SelectSeq(s, Keep)

\* Array.prototype.slice(start, end) on 0-based indices, end exclusive;
\* a negative index counts from the end of the array.
SliceIndex(i, len) == IF i < 0 THEN (IF len + i < 0 THEN 0 ELSE len + i)
                      ELSE (IF i > len THEN len ELSE i)
Slice(s, start, end) ==
    LET from == SliceIndex(start, Len(s))
        to   == SliceIndex(end, Len(s))
    IN  IF to <= from THEN <<>> ELSE SubSeq(s, from + 1, to)

RECURSIVE Flatten(_)
Flatten(ss) == IF ss = <<>> THEN <<>> ELSE Head(ss) \o Flatten(Tail(ss))

\* the elements of a sequence, as a set
Range(s) == {s[i] : i \in 1..Len(s)}

----------------------------------------------------------------------------
(* Strings.  A typed title is a sequence of characters; String.prototype.trim
   drops the white space at both ends. *)

IsSpace(c) == c \in {" ", "\t", "\n"}

RECURSIVE TrimStart(_)
TrimStart(cs) == IF cs # <<>> /\ IsSpace(Head(cs)) THEN TrimStart(Tail(cs)) ELSE cs

RECURSIVE TrimEnd(_)
TrimEnd(cs) == IF cs # <<>> /\ IsSpace(cs[Len(cs)])
               THEN TrimEnd(SubSeq(cs, 1, Len(cs) - 1)) ELSE cs

\* the title taken as typed, white space and all
TrimNothing(cs) == cs

Trim(cs) == TrimEnd(TrimStart(cs))

\* a non-empty string is truthy
Truthy(cs) == cs # <<>>

\* the string a character sequence spells
RECURSIVE Str(_)
Str(cs) == IF cs = <<>> THEN "" ELSE Head(cs) \o Str(Tail(cs))

----------------------------------------------------------------------------
(* JSON texts.  A text is a sequence of tokens: punctuation, string literals
   and the literals true and false. *)

P(c) == [t |-> "punct", v |-> c]
S(str) == [t |-> "string", v |-> str]
B(b) == [t |-> "literal", v |-> IF b THEN "true" ELSE "false"]

RECURSIVE JoinComma(_)
JoinComma(texts) ==
    IF texts = <<>> THEN <<>>
    ELSE IF Len(texts) = 1 THEN texts[1]
    ELSE texts[1] \o <<P(",")>> \o JoinComma(Tail(texts))

StringifyArray(texts) == <<P("[")>> \o JoinComma(texts) \o <<P("]")>>

\* JSON.stringify of a Task, a Column, a Section: the keys in the order the
\* object literals and spreads of the handlers create them
StringifyTask(task) ==
    <<P("{"), S("id"), P(":"), S(task.id), P(","),
      S("title"), P(":"), S(task.title), P(","),
      S("completed"), P(":"), B(task.completed), P("}")>>

StringifyColumn(col) ==
    <<P("{"), S("id"), P(":"), S(col.id), P(","),
      S("title"), P(":"), S(col.title), P(","), S("tasks"), P(":")>>
    \o StringifyArray(Map(StringifyTask, col.tasks)) \o <<P("}")>>

StringifySection(section) ==
    <<P("{"), S("id"), P(":"), S(section.id), P(","),
      S("title"), P(":"), S(section.title), P(","), S("columns"), P(":")>>
    \o StringifyArray(Map(StringifyColumn, section.columns)) \o <<P("}")>>

\* JSON.stringify(valueToStore); a Board that is no array is never written
JSONstringify(board) ==
    IF IsArray(board) THEN StringifyArray(Map(StringifySection, board.v))
    ELSE <<P("{"), P("}")>>

\* JSON.stringify(value, null, 2): the tokens of JSON.stringify(value) with a
\* newline and two spaces per level of nesting after every opening bracket
\* and comma and before every closing bracket, a space after every colon, and
\* nothing inside an empty array or object
RECURSIVE Spaces(_)
Spaces(depth) == IF depth = 0 THEN "" ELSE "  " \o Spaces(depth - 1)

W(str) == [t |-> "space", v |-> str]

\* the texts ss[lo], ..., ss[hi] one after the other
RECURSIVE Concat(_, _, _)
Concat(ss, lo, hi) ==
    IF lo > hi THEN <<>>
    ELSE IF lo = hi THEN ss[lo]
    ELSE LET mid == (lo + hi) \div 2
         IN  Concat(ss, lo, mid) \o Concat(ss, mid + 1, hi)

\* the brackets open before the i-th token
Nesting(toks, i) ==
    Cardinality({j \in 1..(i - 1) : toks[j] \in {P("["), P("{")}})
    - Cardinality({j \in 1..(i - 1) : toks[j] \in {P("]"), P("}")}})

Indent(toks) ==
    LET piece(i) ==
          LET tok == toks[i]
              depth == Nesting(toks, i)
          IN  IF tok \in {P("["), P("{")}
              THEN IF i < Len(toks) /\ toks[i + 1] \in {P("]"), P("}")}
                   THEN <<tok>>
                   ELSE <<tok, W("\n" \o Spaces(depth + 1))>>
              ELSE IF tok \in {P("]"), P("}")}
              THEN IF i > 1 /\ toks[i - 1] \in {P("["), P("{")}
                   THEN <<tok>>
                   ELSE <<W("\n" \o Spaces(depth - 1)), tok>>
              ELSE IF tok = P(",") THEN <<tok, W("\n" \o Spaces(depth))>>
              ELSE IF tok = P(":") THEN <<tok, W(" ")>>
              ELSE <<tok>>
    IN  Concat([i \in 1..Len(toks) |-> piece(i)], 1, Len(toks))

\* JSON.parse by recursive descent.  A result is [ok, val, rest]; a value is
\* [k |-> "arr", v |-> values], [k |-> "obj", v |-> members in text order],
\* [k |-> "str", v |-> string] or [k |-> "bool", v |-> boolean].
Failed == [ok |-> FALSE, val |-> <<>>, rest |-> <<>>]
Parsed(val, rest) == [ok |-> TRUE, val |-> val, rest |-> rest]

RECURSIVE ParseValue(_)
RECURSIVE ParseElements(_, _)
RECURSIVE ParseMembers(_, _)

ParseValue(toks) ==
    IF toks = <<>> THEN Failed
    ELSE LET tok == Head(toks) IN
         IF tok.t = "string" THEN Parsed([k |-> "str", v |-> tok.v], Tail(toks))
         ELSE IF tok.t = "literal"
              THEN Parsed([k |-> "bool", v |-> (tok.v = "true")], Tail(toks))
         ELSE IF tok = P("[")
              THEN IF Len(toks) > 1 /\ toks[2] = P("]")
                   THEN Parsed([k |-> "arr", v |-> <<>>], Tail(Tail(toks)))
                   ELSE ParseElements(Tail(toks), <<>>)
         ELSE IF tok = P("{")
              THEN IF Len(toks) > 1 /\ toks[2] = P("}")
                   THEN Parsed([k |-> "obj", v |-> <<>>], Tail(Tail(toks)))
                   ELSE ParseMembers(Tail(toks), <<>>)
         ELSE Failed

ParseElements(toks, acc) ==
    LET r == ParseValue(toks) IN
    IF ~r.ok \/ r.rest = <<>> THEN Failed
    ELSE IF Head(r.rest) = P(",")
         THEN ParseElements(Tail(r.rest), Append(acc, r.val))
    ELSE IF Head(r.rest) = P("]")
         THEN Parsed([k |-> "arr", v |-> Append(acc, r.val)], Tail(r.rest))
    ELSE Failed

ParseMembers(toks, acc) ==
    IF Len(toks) < 3 \/ toks[1].t # "string" \/ toks[2] # P(":") THEN Failed
    ELSE LET r == ParseValue(Tail(Tail(toks))) IN
         IF ~r.ok \/ r.rest = <<>> THEN Failed
         ELSE LET member == [key |-> toks[1].v, val |-> r.val] IN
              IF Head(r.rest) = P(",")
              THEN ParseMembers(Tail(r.rest), Append(acc, member))
              ELSE IF Head(r.rest) = P("}")
              THEN Parsed([k |-> "obj", v |-> Append(acc, member)], Tail(r.rest))
              ELSE Failed

\* JSON.parse that takes white space between tokens for a syntax error
JSONparseNoSpace(text) ==
    LET r == ParseValue(text) IN
    IF r.ok /\ r.rest = <<>> THEN r ELSE Failed

\* JSON.parse(text): throws a SyntaxError unless the whole text is one value;
\* white space between the tokens is skipped
JSONparse(text) ==
    LET r == ParseValue(SelectSeq(text, LAMBDA tok : tok.t # "space")) IN
    IF r.ok /\ r.rest = <<>> THEN r ELSE Failed

\* obj[key] of a parsed object: the last member with that key
Field(obj, key) ==
    LET hits == {i \in 1..Len(obj.v) : obj.v[i].key = key}
        last == CHOOSE i \in hits : \A j \in hits : j <= i
    IN  obj.v[last].val

\* The parsed value as the handlers see it.  The elements of a parsed array
\* are read as Sections; a top-level value that is no array keeps its kind only.
TaskOf(j) == [id |-> Field(j, "id").v, title |-> Field(j, "title").v,
              completed |-> Field(j, "completed").v]
ColumnOf(j) == [id |-> Field(j, "id").v, title |-> Field(j, "title").v,
                tasks |-> Map(TaskOf, Field(j, "tasks").v)]
SectionOf(j) == [id |-> Field(j, "id").v, title |-> Field(j, "title").v,
                 columns |-> Map(ColumnOf, Field(j, "columns").v)]
BoardOf(j) == IF j.k = "arr" THEN Arr(Map(SectionOf, j.v))
              ELSE [k |-> j.k, v |-> <<>>]

----------------------------------------------------------------------------
(* The Board values the handlers hand to setSections.  Each takes the array
   of Sections the handler's closure holds. *)

\* the initialValue TrelloBoard passes to useLocalStorage
SeedBoard ==
    Arr(<< [id |-> "1", title |-> "Project Planning", columns |->
             << [id |-> "c1", title |-> "To Do", tasks |->
                  << [id |-> "t1", title |-> "Sample task 1", completed |-> FALSE],
                     [id |-> "t3", title |-> "Completed sample task", completed |-> TRUE] >>],
                [id |-> "c2", title |-> "In Progress", tasks |->
                  << [id |-> "t2", title |-> "Sample task 2", completed |-> FALSE] >>],
                [id |-> "c3", title |-> "Done", tasks |-> <<>>] >>],
           [id |-> "2", title |-> "Development", columns |->
             << [id |-> "c4", title |-> "Backlog", tasks |-> <<>>],
                [id |-> "c5", title |-> "In Development", tasks |-> <<>>] >>] >>)

\* Date.now().toString(), `col-${Date.now()}`, `task-${Date.now()}`
SectionIdAt(t) == ToString(t)
ColumnIdAt(t) == "col-" \o ToString(t)
TaskIdAt(t) == "task-" \o ToString(t)

\* [...sections, newSection]; t1 and t2 are the two readings of the clock
addSectionValue(secs, t1, t2) ==
    Append(secs, [id |-> SectionIdAt(t1), title |-> "New Section", columns |->
                   << [id |-> ColumnIdAt(t2), title |-> "New Column", tasks |-> <<>>] >>])

deleteSectionValue(secs, sectionId) ==
    Filter(secs, LAMBDA section : section.id # sectionId)

\* clearCompletedTasks by tasks.splice(tasks.findIndex(t => t.completed), 1):
\* the first completed Task goes, and with none completed findIndex is -1
\* and the last Task goes
clearBySplice(secs, sectionId) ==
    Map(LAMBDA section :
          IF section.id = sectionId
          THEN [section EXCEPT !.columns =
                  Map(LAMBDA col :
                        LET n == Len(col.tasks)
                            hits == {k \in 1..n : col.tasks[k].completed}
                            at == IF hits = {} THEN n
                                  ELSE CHOOSE k \in hits : \A h \in hits : k <= h
                        IN  [col EXCEPT !.tasks =
                               SubSeq(col.tasks, 1, at - 1) \o SubSeq(col.tasks, at + 1, n)],
                      section.columns)]
          ELSE section,
        secs)

\* clearCompletedTasks filtering the Columns of every Section
clearCompletedEverywhere(secs, sectionId) ==
    Map(LAMBDA section :
          [section EXCEPT !.columns =
             Map(LAMBDA col :
                   [col EXCEPT !.tasks = Filter(col.tasks, LAMBDA task : ~task.completed)],
                 section.columns)],
        secs)

clearCompletedTasksValue(secs, sectionId) ==
    Map(LAMBDA section :
          IF section.id = sectionId
          THEN [section EXCEPT !.columns =
                  Map(LAMBDA col :
                        [col EXCEPT !.tasks = Filter(col.tasks, LAMBDA task : ~task.completed)],
                      section.columns)]
          ELSE section,
        secs)

editSectionTitleValue(secs, sectionId, title) ==
    Map(LAMBDA section :
          IF section.id = sectionId THEN [section EXCEPT !.title = title] ELSE section,
        secs)

addColumnValue(secs, sectionId, t) ==
    LET newColumn == [id |-> ColumnIdAt(t), title |-> "New Column", tasks |-> <<>>]
    IN  Map(LAMBDA section :
              IF section.id = sectionId
              THEN [section EXCEPT !.columns = Append(section.columns, newColumn)]
              ELSE section,
            secs)

\* removeColumn without the minimum of one Column
removeColumnUnguarded(secs, sectionId) ==
    Map(LAMBDA section :
          IF section.id = sectionId
          THEN [section EXCEPT !.columns = Slice(section.columns, 0, -1)]
          ELSE section,
        secs)

\* removeColumn taking the first Column: slice(1) for slice(0, -1)
removeColumnFirst(secs, sectionId) ==
    Map(LAMBDA section :
          IF section.id = sectionId /\ Len(section.columns) > 1
          THEN [section EXCEPT !.columns = Slice(section.columns, 1, Len(section.columns))]
          ELSE section,
        secs)

\* removeColumn moving the Tasks of the last Column to the Column before it
removeColumnKeepsTasks(secs, sectionId) ==
    Map(LAMBDA section :
          IF section.id = sectionId /\ Len(section.columns) > 1
          THEN LET n == Len(section.columns) IN
               [section EXCEPT !.columns =
                  [j \in 1..(n - 1) |->
                     IF j = n - 1
                     THEN [section.columns[j] EXCEPT
                             !.tasks = @ \o section.columns[n].tasks]
                     ELSE section.columns[j]]]
          ELSE section,
        secs)

removeColumnValue(secs, sectionId) ==
    Map(LAMBDA section :
          IF section.id = sectionId /\ Len(section.columns) > 1
          THEN [section EXCEPT !.columns = Slice(section.columns, 0, -1)]
          ELSE section,
        secs)

\* sections.map(section => section.id === sectionId
\*   ? {...section, columns: section.columns.map(col =>
\*        col.id === columnId ? {...col, tasks: onTasks(col.tasks)} : col)}
\*   : section): the shape addTask, deleteTask, toggleTaskCompletion,
\* editTaskTitle and both halves of handleDrop share
InColumn(secs, sectionId, columnId, OnTasks(_)) ==
    Map(LAMBDA section :
          IF section.id = sectionId
          THEN [section EXCEPT !.columns =
                  Map(LAMBDA col :
                        IF col.id = columnId
                        THEN [col EXCEPT !.tasks = OnTasks(col.tasks)]
                        ELSE col,
                      section.columns)]
          ELSE section,
        secs)

editColumnTitleValue(secs, sectionId, columnId, title) ==
    Map(LAMBDA section :
          IF section.id = sectionId
          THEN [section EXCEPT !.columns =
                  Map(LAMBDA col :
                        IF col.id = columnId THEN [col EXCEPT !.title = title] ELSE col,
                      section.columns)]
          ELSE section,
        secs)

addTaskValue(secs, sectionId, columnId, title, t) ==
    LET newTask == [id |-> TaskIdAt(t), title |-> title, completed |-> FALSE]
    IN  InColumn(secs, sectionId, columnId, LAMBDA tasks : Append(tasks, newTask))

\* deleteTask looking for the Column in every Section
deleteTaskAnySection(secs, sectionId, columnId, taskId) ==
    Map(LAMBDA section :
          [section EXCEPT !.columns =
             Map(LAMBDA col :
                   IF col.id = columnId
                   THEN [col EXCEPT !.tasks =
                           Filter(col.tasks, LAMBDA task : task.id # taskId)]
                   ELSE col,
                 section.columns)],
        secs)

deleteTaskValue(secs, sectionId, columnId, taskId) ==
    InColumn(secs, sectionId, columnId,
             LAMBDA tasks : Filter(tasks, LAMBDA task : task.id # taskId))

\* toggleTaskCompletion writing completed: true, not !task.completed
toggleSetsCompleted(secs, sectionId, columnId, taskId) ==
    InColumn(secs, sectionId, columnId,
             LAMBDA tasks :
               Map(LAMBDA task :
                     IF task.id = taskId THEN [task EXCEPT !.completed = TRUE] ELSE task,
                   tasks))

toggleTaskCompletionValue(secs, sectionId, columnId, taskId) ==
    InColumn(secs, sectionId, columnId,
             LAMBDA tasks :
               Map(LAMBDA task :
                     IF task.id = taskId
                     THEN [task EXCEPT !.completed = ~task.completed]
                     ELSE task,
                   tasks))

editTaskTitleValue(secs, sectionId, columnId, taskId, title) ==
    InColumn(secs, sectionId, columnId,
             LAMBDA tasks :
               Map(LAMBDA task :
                     IF task.id = taskId THEN [task EXCEPT !.title = title] ELSE task,
                   tasks))

\* handleDrop, "Remove task from source"
updatedSections(secs, dragged) ==
    InColumn(secs, dragged.fromSection, dragged.fromColumn,
             LAMBDA tasks : Filter(tasks, LAMBDA task : task.id # dragged.task.id))

\* handleDrop adding the Task to the target only when the source held it
finalSectionsIfRemoved(secs, dragged, toSectionId, toColumnId) ==
    IF updatedSections(secs, dragged) = secs
    THEN secs
    ELSE InColumn(updatedSections(secs, dragged), toSectionId, toColumnId,
                  LAMBDA tasks : Append(tasks, dragged.task))

\* handleDrop adding the Task at the head of the target: [task, ...col.tasks]
finalSectionsPrepend(secs, dragged, toSectionId, toColumnId) ==
    InColumn(updatedSections(secs, dragged), toSectionId, toColumnId,
             LAMBDA tasks : <<dragged.task>> \o tasks)

\* handleDrop adding the Task as the source Column holds it at drop time, and
\* the Task taken at drag start only when the source holds none with its id
finalSectionsFresh(secs, dragged, toSectionId, toColumnId) ==
    LET held == SelectSeq(Flatten(Map(LAMBDA section :
                                        IF section.id = dragged.fromSection
                                        THEN Flatten(Map(LAMBDA col :
                                                           IF col.id = dragged.fromColumn
                                                           THEN col.tasks ELSE <<>>,
                                                         section.columns))
                                        ELSE <<>>,
                                      secs)),
                          LAMBDA task : task.id = dragged.task.id)
        moved == IF held = <<>> THEN dragged.task ELSE held[1]
    IN  InColumn(updatedSections(secs, dragged), toSectionId, toColumnId,
                 LAMBDA tasks : Append(tasks, moved))

\* handleDrop, "Add task to target"
finalSections(secs, dragged, toSectionId, toColumnId) ==
    InColumn(updatedSections(secs, dragged), toSectionId, toColumnId,
             LAMBDA tasks : Append(tasks, dragged.task))

----------------------------------------------------------------------------
(* What the handlers are called with *)

UnknownId == "none"     \* an id no Section, Column or Task has

Columns(secs) == Flatten(Map(LAMBDA section : section.columns, secs))
Tasks(secs) == Flatten(Map(LAMBDA col : col.tasks, Columns(secs)))

SectionIdArgs ==
    (IF IsArray(sections) THEN {section.id : section \in Range(sections.v)} ELSE {})
    \cup {UnknownId}
ColumnIdArgs ==
    (IF IsArray(sections) THEN {col.id : col \in Range(Columns(sections.v))} ELSE {})
    \cup {UnknownId}
TaskIdArgs ==
    (IF IsArray(sections) THEN {task.id : task \in Range(Tasks(sections.v))} ELSE {})
    \cup {UnknownId}

\* the Tasks the view renders, each with the Section and Column it is rendered in
Rendered ==
    IF IsArray(sections)
    THEN UNION {UNION {{[task |-> task, fromSection |-> section.id, fromColumn |-> col.id] :
                         task \in Range(col.tasks)} :
                       col \in Range(section.columns)} :
                section \in Range(sections.v)}
    ELSE {}

\* (section id, column id) as a handler may be given them
ColumnAddrs == SectionIdArgs \X ColumnIdArgs

\* (section id, column id) of the rendered Columns, (column id, task id) of
\* the rendered Tasks
SectionColumns ==
    IF IsArray(sections)
    THEN UNION {{<<section.id, col.id>> : col \in Range(section.columns)} :
                section \in Range(sections.v)}
    ELSE {}
ColumnTasks ==
    IF IsArray(sections)
    THEN UNION {UNION {{<<col.id, task.id>> : task \in Range(col.tasks)} :
                       col \in Range(section.columns)} :
                section \in Range(sections.v)}
    ELSE {}

\* (section id, column id, task id) as a handler may be given them: the ids of
\* a rendered Task, and those in which the Column is not one of the Section
\* or the Task is not one of the Column
TaskAddrs ==
    {<<sectionId, ct[1], ct[2]>> : sectionId \in SectionIdArgs, ct \in ColumnTasks}
    \cup {<<sc[1], sc[2], taskId>> : sc \in SectionColumns, taskId \in TaskIdArgs}
    \cup {<<sectionId, UnknownId, taskId>> : sectionId \in SectionIdArgs, taskId \in TaskIdArgs}

\* what the user types into a title field
TypedTitles == {<<>>, <<" ", " ">>, <<"X">>}

\* Boards an earlier session or another installation has saved
SavedBoard ==
    Arr(<< [id |-> "7", title |-> "Work", columns |->
             << [id |-> "col-7", title |-> "To Do", tasks |->
                  << [id |-> "task-8", title |-> "Write spec", completed |-> FALSE] >>],
                [id |-> "col-9", title |-> "Done", tasks |-> <<>>] >>] >>)
BareBoard == Arr(<< [id |-> "5", title |-> "Empty", columns |-> <<>>] >>)

CorruptText == <<P("["), P("{"), S("id")>>                    \* a truncated snapshot
ObjectText == <<P("{"), S("foo"), P(":"), S("bar"), P("}")>>   \* {"foo":"bar"}

\* what localStorage may hold when the component mounts
SlotContents ==
    {Null, Some(CorruptText), Some(ObjectText),
     Some(JSONstringify(SavedBoard)), Some(JSONstringify(BareBoard))}

\* the files the user may select for import
FileTexts ==
    {CorruptText, ObjectText, JSONstringify(SavedBoard), JSONstringify(BareBoard)}

----------------------------------------------------------------------------
(* useLocalStorage *)

\* the initializer of useState falling back to an empty Board, not to
\* initialValue, when JSON.parse throws
storedValueInitEmpty(item, initialValue) ==
    IF IsNull(item) \/ Val(item) = <<>> THEN initialValue
    ELSE LET r == JSONparse(Val(item)) IN
         IF r.ok THEN BoardOf(r.val) ELSE Arr(<<>>)

\* the initializer of useState: the parsed item, or initialValue when there is
\* no item or JSON.parse throws
storedValueInit(item, initialValue) ==
    IF IsNull(item) \/ Val(item) = <<>> THEN initialValue
    ELSE LET r == JSONparse(Val(item)) IN
         IF r.ok THEN BoardOf(r.val) ELSE initialValue

\* setValue writing the value of its closure, storedValue, to the slot
setValueStale(value, quota) ==
    /\ sections' = value
    /\ IF quota
       THEN slot' = Some(JSONstringify(sections)) /\ lastWrite' = "ok"
       ELSE slot' = slot /\ lastWrite' = "failed"

\* setValue calling setStoredValue after setItem, inside the try
setValueAfterWrite(value, quota) ==
    IF quota
    THEN sections' = value /\ slot' = Some(JSONstringify(value)) /\ lastWrite' = "ok"
    ELSE sections' = sections /\ slot' = slot /\ lastWrite' = "failed"

\* setValue(value); quota tells whether localStorage.setItem succeeds
setValue(value, quota) ==
    /\ sections' = value
    /\ IF quota
       THEN slot' = Some(JSONstringify(value)) /\ lastWrite' = "ok"
       ELSE slot' = slot /\ lastWrite' = "failed"

----------------------------------------------------------------------------
(* The handlers *)

CanStep == steps < MaxSteps /\ steps' = steps + 1 /\ UNCHANGED drags /\ UNCHANGED aside

\* the ids on a Board, each with its kind
Ids(board) ==
    IF IsArray(board)
    THEN {<<"section", section.id>> : section \in Range(board.v)}
         \cup {<<"column", col.id>> : col \in Range(Columns(board.v))}
         \cup {<<"task", task.id>> : task \in Range(Tasks(board.v))}
    ELSE {}

\* the record of one handler call
Report(op, section, write, notice, threw) ==
    /\ out' = [op |-> op, section |-> section, write |-> write, notice |-> notice,
               threw |-> threw]
    /\ prev' = [sections |-> sections, draggedTask |-> draggedTask,
                lastWrite |-> lastWrite]
    /\ retired' = retired \cup (Ids(sections) \ Ids(sections'))

\* the handler returns without calling setSections
Quiet(op, section) ==
    /\ UNCHANGED <<sections, slot, lastWrite>>
    /\ Report(op, section, "none", "none", FALSE)

\* sections.map or [...sections] throws a TypeError: sections is no array
Throws(op, section) ==
    /\ UNCHANGED <<sections, slot, lastWrite>>
    /\ Report(op, section, "none", "none", TRUE)

SetSections(op, section, value) ==
    \E quota \in BOOLEAN :
        /\ setValue(value, quota)
        /\ Report(op, section, IF quota THEN "ok" ELSE "failed", "none", FALSE)

\* what Date.now() may return when the latest reading was t: the clock has
\* stood still or advanced since
DateNow(t) == {u \in {t, t + 1} : u <= StartTime + MaxTicks}

Init ==
    /\ slot \in SlotContents
    /\ sections = storedValueInit(slot, SeedBoard)
    /\ draggedTask = Null
    /\ editingSection = Null
    /\ editingColumn = Null
    /\ editingTask = Null
    /\ reading = <<>>
    /\ now = StartTime
    /\ out = [op |-> "mount", section |-> Null, write |-> "none", notice |-> "none", threw |-> FALSE]
    /\ prev = [sections |-> sections, draggedTask |-> Null, lastWrite |-> "none"]
    /\ lastWrite = "none"
    /\ retired = {}
    /\ steps = 0
    /\ drags = 0
    /\ copiedSection = Null
    /\ writing = <<>>
    /\ clipboard = Null
    /\ timers = <<>>
    /\ clock = 0
    /\ copied = Null
    /\ copies = 0
    /\ downloads = <<>>

addSection ==
    /\ CanStep
    /\ \E t1 \in DateNow(now) : \E t2 \in DateNow(t1) :
        /\ now' = t2
        /\ IF IsArray(sections)
           THEN SetSections("addSection", Null, Arr(addSectionValue(sections.v, t1, t2)))
           ELSE Throws("addSection", Null)
    /\ UNCHANGED <<draggedTask, editingSection, editingColumn, editingTask, reading>>

deleteSection(sectionId) ==
    /\ CanStep
    /\ IF IsArray(sections)
       THEN SetSections("deleteSection", Some(sectionId), Arr(deleteSectionValue(sections.v, sectionId)))
       ELSE Throws("deleteSection", Some(sectionId))
    /\ UNCHANGED <<draggedTask, editingSection, editingColumn, editingTask, reading, now>>

clearCompletedTasks(sectionId) ==
    /\ CanStep
    /\ IF IsArray(sections)
       THEN SetSections("clearCompletedTasks", Some(sectionId),
                        Arr(clearCompletedTasksValue(sections.v, sectionId)))
       ELSE Throws("clearCompletedTasks", Some(sectionId))
    /\ UNCHANGED <<draggedTask, editingSection, editingColumn, editingTask, reading, now>>

editSectionTitle(sectionId, newTitle) ==
    /\ CanStep
    /\ IF Truthy(Trim(newTitle))
       THEN IF IsArray(sections)
            THEN /\ SetSections("editSectionTitle", Some(sectionId),
                                Arr(editSectionTitleValue(sections.v, sectionId, Str(newTitle))))
                 /\ editingSection' = Null
            ELSE Throws("editSectionTitle", Some(sectionId)) /\ UNCHANGED editingSection
       ELSE Quiet("editSectionTitle", Some(sectionId)) /\ editingSection' = Null
    /\ UNCHANGED <<draggedTask, editingColumn, editingTask, reading, now>>

addColumn(sectionId) ==
    /\ CanStep
    /\ \E t \in DateNow(now) :
        /\ now' = t
        /\ IF IsArray(sections)
           THEN SetSections("addColumn", Some(sectionId), Arr(addColumnValue(sections.v, sectionId, t)))
           ELSE Throws("addColumn", Some(sectionId))
    /\ UNCHANGED <<draggedTask, editingSection, editingColumn, editingTask, reading>>

removeColumn(sectionId) ==
    /\ CanStep
    /\ IF IsArray(sections)
       THEN SetSections("removeColumn", Some(sectionId), Arr(removeColumnValue(sections.v, sectionId)))
       ELSE Throws("removeColumn", Some(sectionId))
    /\ UNCHANGED <<draggedTask, editingSection, editingColumn, editingTask, reading, now>>

editColumnTitle(sectionId, columnId, newTitle) ==
    /\ CanStep
    /\ IF Truthy(Trim(newTitle))
       THEN IF IsArray(sections)
            THEN /\ SetSections("editColumnTitle", Some(sectionId),
                                Arr(editColumnTitleValue(sections.v, sectionId, columnId,
                                                         Str(newTitle))))
                 /\ editingColumn' = Null
            ELSE Throws("editColumnTitle", Some(sectionId)) /\ UNCHANGED editingColumn
       ELSE Quiet("editColumnTitle", Some(sectionId)) /\ editingColumn' = Null
    /\ UNCHANGED <<draggedTask, editingSection, editingTask, reading, now>>

addTask(sectionId, columnId, taskTitle) ==
    /\ CanStep
    /\ IF Truthy(Trim(taskTitle))
       THEN \E t \in DateNow(now) :
              /\ now' = t
              /\ IF IsArray(sections)
                 THEN SetSections("addTask", Some(sectionId),
                                  Arr(addTaskValue(sections.v, sectionId, columnId,
                                                   Str(taskTitle), t)))
                 ELSE Throws("addTask", Some(sectionId))
       ELSE Quiet("addTask", Some(sectionId)) /\ UNCHANGED now
    /\ UNCHANGED <<draggedTask, editingSection, editingColumn, editingTask, reading>>

deleteTask(sectionId, columnId, taskId) ==
    /\ CanStep
    /\ IF IsArray(sections)
       THEN SetSections("deleteTask", Some(sectionId),
                        Arr(deleteTaskValue(sections.v, sectionId, columnId, taskId)))
       ELSE Throws("deleteTask", Some(sectionId))
    /\ UNCHANGED <<draggedTask, editingSection, editingColumn, editingTask, reading, now>>

toggleTaskCompletion(sectionId, columnId, taskId) ==
    /\ CanStep
    /\ IF IsArray(sections)
       THEN SetSections("toggleTaskCompletion", Some(sectionId),
                        Arr(toggleTaskCompletionValue(sections.v, sectionId, columnId, taskId)))
       ELSE Throws("toggleTaskCompletion", Some(sectionId))
    /\ UNCHANGED <<draggedTask, editingSection, editingColumn, editingTask, reading, now>>

editTaskTitle(sectionId, columnId, taskId, newTitle) ==
    /\ CanStep
    /\ IF Truthy(Trim(newTitle))
       THEN IF IsArray(sections)
            THEN /\ SetSections("editTaskTitle", Some(sectionId),
                                Arr(editTaskTitleValue(sections.v, sectionId, columnId, taskId,
                                                       Str(newTitle))))
                 /\ editingTask' = Null
            ELSE Throws("editTaskTitle", Some(sectionId)) /\ UNCHANGED editingTask
       ELSE Quiet("editTaskTitle", Some(sectionId)) /\ editingTask' = Null
    /\ UNCHANGED <<draggedTask, editingSection, editingColumn, reading, now>>

handleDragStart(task, fromSection, fromColumn) ==
    /\ drags < MaxDrags
    /\ drags' = drags + 1
    /\ UNCHANGED steps
    /\ UNCHANGED aside
    /\ draggedTask' = Some([task |-> task, fromSection |-> fromSection,
                            fromColumn |-> fromColumn])
    /\ Quiet("handleDragStart", Some(fromSection))
    /\ UNCHANGED <<editingSection, editingColumn, editingTask, reading, now>>

\* handleDrop without its setDraggedTask(null): the drag stays pending
handleDropKeepsDrag(toSectionId, toColumnId) ==
    /\ CanStep
    /\ IF IsNull(draggedTask)
       THEN Quiet("handleDrop", Some(toSectionId))
       ELSE IF IsArray(sections)
            THEN SetSections("handleDrop", Some(toSectionId),
                             Arr(finalSections(sections.v, Val(draggedTask),
                                               toSectionId, toColumnId)))
            ELSE Throws("handleDrop", Some(toSectionId))
    /\ UNCHANGED <<draggedTask, editingSection, editingColumn, editingTask, reading, now>>

handleDrop(toSectionId, toColumnId) ==
    /\ CanStep
    /\ IF IsNull(draggedTask)
       THEN Quiet("handleDrop", Some(toSectionId)) /\ UNCHANGED draggedTask
       ELSE IF IsArray(sections)
            THEN /\ SetSections("handleDrop", Some(toSectionId),
                                Arr(finalSections(sections.v, Val(draggedTask),
                                                  toSectionId, toColumnId)))
                 /\ draggedTask' = Null
            ELSE Throws("handleDrop", Some(toSectionId)) /\ UNCHANGED draggedTask
    /\ UNCHANGED <<editingSection, editingColumn, editingTask, reading, now>>

\* typeof importedData === "object" for Array.isArray(importedData)
TypeofObject(value) == value.k \in {"arr", "obj"}

\* Array.isArray(importedData) of a parsed value
ArrayIsArray(value) == value.k = "arr"

\* the change handler of the file input; file is null when no file was chosen
importData(file) ==
    /\ CanStep
    /\ IF IsNull(file)
       THEN UNCHANGED reading
       ELSE Len(reading) < MaxReads /\ reading' = Append(reading, Val(file))
    /\ Quiet("importData", Null)
    /\ UNCHANGED <<draggedTask, editingSection, editingColumn, editingTask, now>>

\* reader.onload of the i-th read in flight
onload(i) ==
    /\ CanStep
    /\ i \in 1..Len(reading)
    /\ reading' = SubSeq(reading, 1, i - 1) \o SubSeq(reading, i + 1, Len(reading))
    /\ LET r == JSONparse(reading[i]) IN
       IF ~r.ok
       THEN /\ UNCHANGED <<sections, slot, lastWrite>>
            /\ Report("onload", Null, "none", "Error reading file", FALSE)
       ELSE IF ArrayIsArray(r.val)
            THEN SetSections("onload", Null, BoardOf(r.val))
            ELSE /\ UNCHANGED <<sections, slot, lastWrite>>
                 /\ Report("onload", Null, "none", "Invalid JSON format", FALSE)
    /\ UNCHANGED <<draggedTask, editingSection, editingColumn, editingTask, now>>

\* the click on a title that opens its editor, and Escape in a Task's editor
setEditingSection(sectionId) ==
    /\ CanStep
    /\ editingSection' = sectionId
    /\ Quiet("setEditingSection", sectionId)
    /\ UNCHANGED <<draggedTask, editingColumn, editingTask, reading, now>>

setEditingColumn(columnId) ==
    /\ CanStep
    /\ editingColumn' = columnId
    /\ Quiet("setEditingColumn", Null)
    /\ UNCHANGED <<draggedTask, editingSection, editingTask, reading, now>>

setEditingTask(taskId) ==
    /\ CanStep
    /\ editingTask' = taskId
    /\ Quiet("setEditingTask", Null)
    /\ UNCHANGED <<draggedTask, editingSection, editingColumn, reading, now>>

Next ==
    \/ addSection
    \/ \E sectionId \in SectionIdArgs : deleteSection(sectionId)
    \/ \E sectionId \in SectionIdArgs : clearCompletedTasks(sectionId)
    \/ \E sectionId \in SectionIdArgs, newTitle \in TypedTitles :
         editSectionTitle(sectionId, newTitle)
    \/ \E sectionId \in SectionIdArgs : addColumn(sectionId)
    \/ \E sectionId \in SectionIdArgs : removeColumn(sectionId)
    \/ \E a \in ColumnAddrs, newTitle \in TypedTitles : editColumnTitle(a[1], a[2], newTitle)
    \/ \E a \in ColumnAddrs, taskTitle \in TypedTitles : addTask(a[1], a[2], taskTitle)
    \/ \E a \in TaskAddrs : deleteTask(a[1], a[2], a[3])
    \/ \E a \in TaskAddrs : toggleTaskCompletion(a[1], a[2], a[3])
    \/ \E a \in TaskAddrs, newTitle \in TypedTitles : editTaskTitle(a[1], a[2], a[3], newTitle)
    \/ \E d \in Rendered : handleDragStart(d.task, d.fromSection, d.fromColumn)
    \/ \E a \in ColumnAddrs : handleDrop(a[1], a[2])
    \/ \E file \in {Null} \cup {Some(text) : text \in FileTexts} : importData(file)
    \/ \E i \in 1..MaxReads : onload(i)
    \/ \E sectionId \in SectionIdArgs \ {UnknownId} : setEditingSection(Some(sectionId))
    \/ \E columnId \in ColumnIdArgs \ {UnknownId} : setEditingColumn(Some(columnId))
    \/ \E taskId \in TaskIdArgs \ {UnknownId} : setEditingTask(Some(taskId))
    \/ setEditingTask(Null)

Spec == Init /\ [][Next]_vars

\* A first run: the slot holds no snapshot, the Board is the seed Board, and
\* the user edits the Board without importing a file.
SeedInit == Init /\ slot = Null

SeedNext ==
    \/ addSection
    \/ \E sectionId \in SectionIdArgs : deleteSection(sectionId)
    \/ \E sectionId \in SectionIdArgs : clearCompletedTasks(sectionId)
    \/ \E sectionId \in SectionIdArgs, newTitle \in TypedTitles :
         editSectionTitle(sectionId, newTitle)
    \/ \E sectionId \in SectionIdArgs : addColumn(sectionId)
    \/ \E sectionId \in SectionIdArgs : removeColumn(sectionId)
    \/ \E a \in ColumnAddrs, newTitle \in TypedTitles : editColumnTitle(a[1], a[2], newTitle)
    \/ \E a \in ColumnAddrs, taskTitle \in TypedTitles : addTask(a[1], a[2], taskTitle)
    \/ \E a \in TaskAddrs : deleteTask(a[1], a[2], a[3])
    \/ \E a \in TaskAddrs : toggleTaskCompletion(a[1], a[2], a[3])
    \/ \E a \in TaskAddrs, newTitle \in TypedTitles : editTaskTitle(a[1], a[2], a[3], newTitle)
    \/ \E d \in Rendered : handleDragStart(d.task, d.fromSection, d.fromColumn)
    \/ \E a \in ColumnAddrs : handleDrop(a[1], a[2])

SeedSpec == SeedInit /\ [][SeedNext]_vars

----------------------------------------------------------------------------
(* Copy as Markdown.  A Markdown text is a sequence of pieces: the literal
   parts of the template, the titles, and the newlines join puts between the
   lines. *)

CopiedSeconds == 2  \* setTimeout(() => setCopiedSection(null), 2000)

\* `- ${checkbox} ${column.title}: ${task.title}`
markdownLine(column, task) ==
    <<"- ", IF task.completed THEN "[x]" ELSE "[ ]", " ", column.title, ": ", task.title>>

\* markdownLines after the two forEach loops
markdownLines(section) ==
    Flatten(Map(LAMBDA column :
                  Map(LAMBDA task : markdownLine(column, task), column.tasks),
                section.columns))

\* Array.prototype.join("\n")
RECURSIVE JoinNewline(_)
JoinNewline(lines) ==
    IF lines = <<>> THEN <<>>
    ELSE IF Len(lines) = 1 THEN lines[1]
    ELSE lines[1] \o <<"\n">> \o JoinNewline(Tail(lines))

\* the text built by ending every line with a newline
markdownTerminated(section) ==
    Flatten(Map(LAMBDA line : line \o <<"\n">>, markdownLines(section)))

\* const markdown = markdownLines.join('\n')
markdown(section) == JoinNewline(markdownLines(section))

\* what the async handlers of the clipboard and the timer leave alone
CopyFrame ==
    UNCHANGED <<draggedTask, editingSection, editingColumn, editingTask, reading, now,
                steps, drags, downloads>>

\* copySectionAsMarkdown up to its await: the text is handed to writeText
copySectionAsMarkdown(section) ==
    /\ copies < MaxCopies
    /\ copies' = copies + 1
    /\ writing' = Append(writing, [section |-> section.id, text |-> markdown(section)])
    /\ Quiet("copySectionAsMarkdown", Some(section.id))
    /\ CopyFrame
    /\ UNCHANGED <<copiedSection, clipboard, timers, clock, copied>>

\* the oldest writeText in flight succeeds: copySectionAsMarkdown goes on
\* after its await
writeTextResolves ==
    /\ writing # <<>>
    /\ writing' = Tail(writing)
    /\ clipboard' = Some(Head(writing).text)
    /\ copiedSection' = Some(Head(writing).section)
    /\ timers' = Append(timers, clock + CopiedSeconds)
    /\ copied' = Some([section |-> Head(writing).section, at |-> clock])
    /\ Quiet("writeTextResolves", Some(Head(writing).section))
    /\ CopyFrame
    /\ UNCHANGED <<clock, copies>>

\* the oldest writeText in flight fails: the catch logs the error
writeTextRejects ==
    /\ writing # <<>>
    /\ writing' = Tail(writing)
    /\ Quiet("writeTextRejects", Some(Head(writing).section))
    /\ CopyFrame
    /\ UNCHANGED <<copiedSection, clipboard, timers, clock, copied, copies>>

\* the callback of the oldest setTimeout runs, its two seconds over
timeout ==
    /\ timers # <<>>
    /\ Head(timers) <= clock
    /\ timers' = Tail(timers)
    /\ copiedSection' = Null
    /\ Quiet("timeout", Null)
    /\ CopyFrame
    /\ UNCHANGED <<writing, clipboard, clock, copied, copies>>

\* a second passes
Tick ==
    /\ clock < MaxClock
    /\ clock' = clock + 1
    /\ UNCHANGED <<sections, slot, lastWrite, out, prev, retired>>
    /\ CopyFrame
    /\ UNCHANGED <<copiedSection, writing, clipboard, timers, copied, copies>>

\* The user toggles Tasks and copies Sections as Markdown.
CopyNext ==
    \/ \E section \in (IF IsArray(sections) THEN Range(sections.v) ELSE {}) :
         copySectionAsMarkdown(section)
    \/ writeTextResolves
    \/ writeTextRejects
    \/ timeout
    \/ Tick
    \/ \E d \in Rendered : toggleTaskCompletion(d.fromSection, d.fromColumn, d.task.id)

CopySpec == Init /\ [][CopyNext]_vars

\* The same without the passing of time: no timer becomes due.
MarkdownNext ==
    \/ \E section \in (IF IsArray(sections) THEN Range(sections.v) ELSE {}) :
         copySectionAsMarkdown(section)
    \/ writeTextResolves
    \/ writeTextRejects
    \/ \E d \in Rendered : toggleTaskCompletion(d.fromSection, d.fromColumn, d.task.id)

MarkdownSpec == Init /\ [][MarkdownNext]_vars

----------------------------------------------------------------------------
(* Export *)

\* exportData: the Board, serialized with an indentation of 2, is saved as a file
exportData ==
    /\ Len(downloads) < MaxExports
    /\ downloads' = Append(downloads, [text |-> Indent(JSONstringify(sections)),
                                       of |-> sections])
    /\ Quiet("exportData", Null)
    /\ UNCHANGED <<draggedTask, editingSection, editingColumn, editingTask, reading, now,
                   steps, drags, copiedSection, writing, clipboard, timers, clock, copied,
                   copies>>

\* The user edits the Board, exports it and imports the files exportData saved.
RoundTripNext ==
    \/ exportData
    \/ \E d \in Range(downloads) : importData(Some(d.text))
    \/ \E i \in 1..MaxReads : onload(i)
    \/ \E d \in Rendered : toggleTaskCompletion(d.fromSection, d.fromColumn, d.task.id)
    \/ \E sectionId \in SectionIdArgs \ {UnknownId} : deleteSection(sectionId)

RoundTripSpec == Init /\ [][RoundTripNext]_vars

----------------------------------------------------------------------------
(* Properties *)

TaskCount(board) == IF IsArray(board) THEN Len(Tasks(board.v)) ELSE 0

\* the Columns of the Board, by position, that hold a Task with the id
ColumnsHolding(board, taskId) ==
    IF IsArray(board)
    THEN {i \in 1..Len(Columns(board.v)) :
            \E task \in Range(Columns(board.v)[i].tasks) : task.id = taskId}
    ELSE {}

\* the Section that out.section or a handler's sectionId names, in a Board
SectionsNamed(board, sectionId) ==
    IF IsArray(board) THEN {section \in Range(board.v) : section.id = sectionId} ELSE {}

\* C1: moveTask is conservative.  Whatever happened between the drag start and
\* the drop, a drop on a rendered Column leaves the number of Tasks on the
\* Board as it was, and afterwards exactly one Column of the Board holds a
\* Task with the id of the dragged Task.
C1_MoveIsConservative ==
    [][\A a \in SectionColumns :
         (handleDrop(a[1], a[2]) /\ ~IsNull(draggedTask))
         => /\ TaskCount(sections') = TaskCount(sections)
            /\ Cardinality(ColumnsHolding(sections', Val(draggedTask).task.id)) = 1]_vars

\* every Section of the Board has at least one Column
MinOneColumn(board) ==
    IsArray(board) => \A section \in Range(board.v) : Len(section.columns) >= 1

\* C2 as stated: whatever the slot held at mount and whatever was imported,
\* every Section on the Board has at least one Column.
C2_EverySectionHasAColumn == MinOneColumn(sections)

\* C2, amended: no handler but the onload of an import takes a Board whose
\* Sections all have a Column to one with a Section that has none.
C2_HandlersKeepAColumn ==
    [][(\E i \in 1..MaxReads : onload(i))
       \/ (MinOneColumn(sections) => MinOneColumn(sections'))]_vars

\* removeColumn was called on a Section with exactly one Column
C2_Witness ==
    /\ out.op = "removeColumn"
    /\ MinOneColumn(prev.sections)
    /\ \E section \in SectionsNamed(prev.sections, Val(out.section)) :
         Len(section.columns) = 1
    /\ \E section \in SectionsNamed(sections, Val(out.section)) :
         Len(section.columns) = 1

\* no two elements of a sequence of entities have the same id
DistinctIds(entities) ==
    \A i, j \in 1..Len(entities) : entities[i].id = entities[j].id => i = j

\* C3: from the seed Board, without imports, the ids of the Sections are
\* pairwise distinct, so are those of the Columns and those of the Tasks of
\* the whole Board, and no id of an entity that left the Board is on it again.
C3_IdsUniqueNeverReused ==
    IsArray(sections) =>
        /\ DistinctIds(sections.v)
        /\ DistinctIds(Columns(sections.v))
        /\ DistinctIds(Tasks(sections.v))
        /\ retired \cap Ids(sections) = {}

\* C4: whenever the most recent write to the slot succeeded, the slot holds
\* the serialization of the Board in memory.
C4_SlotAgreesAfterWrite ==
    lastWrite = "ok" => slot = Some(JSONstringify(sections))

\* a handler changed the Board and its write succeeded
C4_Witness ==
    /\ out.write = "ok"
    /\ sections # prev.sections
    /\ slot = Some(JSONstringify(sections))

\* the values a call of the handler op on the Section sectionId may hand to
\* setSections in the current state
Requested(op, sectionId) ==
    CASE op = "addSection" ->
           UNION {{Arr(addSectionValue(sections.v, t1, t2)) : t2 \in DateNow(t1)} :
                  t1 \in DateNow(now)}
      [] op = "deleteSection" -> {Arr(deleteSectionValue(sections.v, sectionId))}
      [] op = "clearCompletedTasks" ->
           {Arr(clearCompletedTasksValue(sections.v, sectionId))}
      [] op = "editSectionTitle" ->
           {Arr(editSectionTitleValue(sections.v, sectionId, Str(title))) :
              title \in TypedTitles}
      [] op = "addColumn" ->
           {Arr(addColumnValue(sections.v, sectionId, t)) : t \in DateNow(now)}
      [] op = "removeColumn" -> {Arr(removeColumnValue(sections.v, sectionId))}
      [] op = "editColumnTitle" ->
           {Arr(editColumnTitleValue(sections.v, sectionId, columnId, Str(title))) :
              columnId \in ColumnIdArgs, title \in TypedTitles}
      [] op = "addTask" ->
           {Arr(addTaskValue(sections.v, sectionId, a[1], Str(a[2]), a[3])) :
              a \in ColumnIdArgs \X TypedTitles \X DateNow(now)}
      [] op = "deleteTask" ->
           {Arr(deleteTaskValue(sections.v, sectionId, columnId, taskId)) :
              columnId \in ColumnIdArgs, taskId \in TaskIdArgs}
      [] op = "toggleTaskCompletion" ->
           {Arr(toggleTaskCompletionValue(sections.v, sectionId, columnId, taskId)) :
              columnId \in ColumnIdArgs, taskId \in TaskIdArgs}
      [] op = "editTaskTitle" ->
           {Arr(editTaskTitleValue(sections.v, sectionId, a[1], a[2], Str(a[3]))) :
              a \in ColumnIdArgs \X TaskIdArgs \X TypedTitles}
      [] op = "handleDrop" ->
           {Arr(finalSections(sections.v, Val(draggedTask), sectionId, columnId)) :
              columnId \in ColumnIdArgs}
      [] op = "onload" ->
           {BoardOf(JSONparse(reading[i]).val) :
              i \in {j \in 1..Len(reading) : JSONparse(reading[j]).ok}}
      [] OTHER -> {}

\* C5: when the write to the slot fails, the Board in memory is the value the
\* handler asked to store, the slot keeps its content and the handler does
\* not throw; and a write that succeeds after a failed one leaves the slot
\* holding the serialization of the Board in memory.
C5_FailedWriteIsNotRolledBack ==
    [][/\ out'.write = "failed" =>
            /\ sections' \in Requested(out'.op,
                                       IF IsNull(out'.section) THEN UnknownId
                                       ELSE Val(out'.section))
            /\ slot' = slot
            /\ ~out'.threw
       /\ (lastWrite = "failed" /\ out'.write = "ok") =>
            slot' = Some(JSONstringify(sections'))]_vars

\* a write failed on a changed Board, and the write of the next handler succeeded
C5_Witness ==
    /\ prev.lastWrite = "failed"
    /\ slot # Some(JSONstringify(prev.sections))
    /\ out.write = "ok"
    /\ slot = Some(JSONstringify(sections))

\* C6: when the text of an imported file does not parse, or parses to a
\* value that is no array, the onload leaves the Board and the slot as they
\* were and raises a notice; when it parses to an array, the Board becomes
\* that array.
C6_ImportRejection ==
    [][\A i \in 1..Len(reading) :
         onload(i) =>
           LET r == JSONparse(reading[i]) IN
           IF r.ok /\ r.val.k = "arr"
           THEN sections' = BoardOf(r.val) /\ IsArray(sections') /\ out'.notice = "none"
           ELSE sections' = sections /\ slot' = slot /\ out'.notice # "none"]_vars

\* the import of {"foo":"bar"} was rejected
C6_Witness ==
    /\ out.op = "onload"
    /\ out.notice = "Invalid JSON format"
    /\ sections = prev.sections
    /\ out.write = "none"

\* a title that is empty or holds white space only
Blank(title) == \A i \in 1..Len(title) : IsSpace(title[i])

\* C7: editSectionTitle, editColumnTitle, editTaskTitle and addTask called
\* with a blank title leave the Board as it was and do not write to the slot.
C7_BlankTitleIsDiscarded ==
    [][(\E title \in {t \in TypedTitles : Blank(t)} :
          \/ /\ out'.op = "editSectionTitle"
             /\ \E sectionId \in SectionIdArgs : editSectionTitle(sectionId, title)
          \/ /\ out'.op = "editColumnTitle"
             /\ \E a \in ColumnAddrs : editColumnTitle(a[1], a[2], title)
          \/ /\ out'.op = "addTask"
             /\ \E a \in ColumnAddrs : addTask(a[1], a[2], title)
          \/ /\ out'.op = "editTaskTitle"
             /\ \E a \in TaskAddrs : editTaskTitle(a[1], a[2], a[3], title))
       => sections' = sections /\ slot' = slot /\ out'.write = "none"]_vars

\* a title edit of a Section of the Board was discarded
C7_Witness ==
    /\ out.op = "editSectionTitle"
    /\ out.write = "none"
    /\ ~out.threw
    /\ SectionsNamed(sections, Val(out.section)) # {}
    /\ sections = prev.sections

\* C8: removeColumn(sectionId) takes the last Column, and nothing else, off
\* every Section with that id that has more than one Column, leaves a Section
\* with that id and exactly one Column with one Column, and leaves every
\* other Section as it was.
C8_RemoveColumnTakesTheLast ==
    [][\A sectionId \in SectionIdArgs :
         (out'.op = "removeColumn" /\ removeColumn(sectionId) /\ IsArray(sections))
         => /\ IsArray(sections')
            /\ Len(sections'.v) = Len(sections.v)
            /\ \A i \in 1..Len(sections.v) :
                 LET old == sections.v[i]
                     new == sections'.v[i]
                     n == Len(old.columns)
                 IN  /\ (old.id = sectionId /\ n > 1)
                          => /\ new.columns = [j \in 1..(n - 1) |-> old.columns[j]]
                             /\ new.id = old.id
                             /\ new.title = old.title
                     /\ (old.id = sectionId /\ n = 1) => Len(new.columns) = 1
                     /\ old.id # sectionId => new = old]_vars

\* removeColumn took the last Column off a Section that had several
C8_Witness ==
    /\ out.op = "removeColumn"
    /\ IsArray(sections)
    /\ \E i \in 1..Len(prev.sections.v) :
         /\ prev.sections.v[i].id = Val(out.section)
         /\ Len(prev.sections.v[i].columns) > 1
         /\ Len(sections.v[i].columns) = Len(prev.sections.v[i].columns) - 1

\* the Tasks of the source of the pending drag that have the dragged Task's id
InSource(board, dragged) ==
    {<<i, j, k>> \in (1..Len(board.v)) \X (1..8) \X (1..8) :
       /\ board.v[i].id = dragged.fromSection
       /\ j <= Len(board.v[i].columns)
       /\ board.v[i].columns[j].id = dragged.fromColumn
       /\ k <= Len(board.v[i].columns[j].tasks)
       /\ board.v[i].columns[j].tasks[k].id = dragged.task.id}

\* C9: a drop whose source Column no longer holds a Task with the dragged
\* Task's id removes nothing and appends the Task value taken at drag start
\* to the end of the destination Column.
C9_StaleSourceStillAppends ==
    [][\A a \in ColumnAddrs :
         (out'.op = "handleDrop" /\ handleDrop(a[1], a[2]) /\ ~IsNull(draggedTask)
            /\ IsArray(sections) /\ InSource(sections, Val(draggedTask)) = {})
         => /\ IsArray(sections')
            /\ Len(sections'.v) = Len(sections.v)
            /\ \A i \in 1..Len(sections.v) :
                 LET old == sections.v[i]
                     new == sections'.v[i]
                 IN  /\ new.id = old.id /\ new.title = old.title
                     /\ Len(new.columns) = Len(old.columns)
                     /\ \A j \in 1..Len(old.columns) :
                          new.columns[j] =
                            IF old.id = a[1] /\ old.columns[j].id = a[2]
                            THEN [old.columns[j] EXCEPT
                                    !.tasks = Append(@, Val(draggedTask).task)]
                            ELSE old.columns[j]]_vars

\* a Task that had left the Board between drag start and drop is on it again
C9_Witness ==
    /\ out.op = "handleDrop"
    /\ ~IsNull(prev.draggedTask)
    /\ ColumnsHolding(prev.sections, Val(prev.draggedTask).task.id) = {}
    /\ <<"task", Val(prev.draggedTask).task.id>> \in retired
    /\ Cardinality(ColumnsHolding(sections, Val(prev.draggedTask).task.id)) = 1
    /\ TaskCount(sections) = TaskCount(prev.sections) + 1

\* C10: a drop whose destination ids name no Column of the Board (an unknown
\* Section, an unknown Column, or a Column of another Section) leaves the
\* Board as it was.
C10_UnknownDestinationIsNoOp ==
    [][\A a \in ColumnAddrs \ SectionColumns :
         (out'.op = "handleDrop" /\ handleDrop(a[1], a[2]) /\ ~IsNull(draggedTask)
            /\ IsArray(sections))
         => sections' = sections]_vars

\* the (section id, column id, task id) of the Tasks on the Board
RenderedTaskAddrs == {<<d.fromSection, d.fromColumn, d.task.id>> : d \in Rendered}

\* the step is a call with a section id no Section has
UnknownSectionCall(sectionId) ==
    /\ SectionsNamed(sections, sectionId) = {}
    /\ \/ out'.op = "deleteSection" /\ deleteSection(sectionId)
       \/ out'.op = "clearCompletedTasks" /\ clearCompletedTasks(sectionId)
       \/ out'.op = "addColumn" /\ addColumn(sectionId)
       \/ out'.op = "removeColumn" /\ removeColumn(sectionId)
       \/ /\ out'.op = "editSectionTitle"
          /\ \E newTitle \in TypedTitles : editSectionTitle(sectionId, newTitle)

\* the step is a call with a column id that names no Column of the Section
UnknownColumnCall(sectionId) ==
    /\ out'.op \in {"editColumnTitle", "addTask"}
    /\ \E columnId \in {c \in ColumnIdArgs : <<sectionId, c>> \notin SectionColumns},
          title \in TypedTitles :
         \/ out'.op = "editColumnTitle" /\ editColumnTitle(sectionId, columnId, title)
         \/ out'.op = "addTask" /\ addTask(sectionId, columnId, title)

\* the step is a call with ids that name no Task of the Column of the Section
UnknownTaskCall(sectionId) ==
    /\ out'.op \in {"deleteTask", "toggleTaskCompletion", "editTaskTitle"}
    /\ \E a \in {b \in TaskAddrs \ RenderedTaskAddrs : b[1] = sectionId} :
         \/ out'.op = "deleteTask" /\ deleteTask(a[1], a[2], a[3])
         \/ out'.op = "toggleTaskCompletion" /\ toggleTaskCompletion(a[1], a[2], a[3])
         \/ /\ out'.op = "editTaskTitle"
            /\ \E newTitle \in TypedTitles : editTaskTitle(a[1], a[2], a[3], newTitle)

\* C11: deleteSection, clearCompletedTasks, editSectionTitle, addColumn and
\* removeColumn called with a section id no Section has, editColumnTitle and
\* addTask called with a (section id, column id) that names no Column of that
\* Section, and deleteTask, toggleTaskCompletion and editTaskTitle called with
\* a (section id, column id, task id) that names no Task of that Column of
\* that Section, leave the Board as it was: a step that changes the Board is
\* no such call.
C11_UnknownIdIsNoOp ==
    [][\/ sections' = sections
       \/ ~IsArray(sections)
       \/ IsNull(out'.section)
       \/ ~(\/ UnknownSectionCall(Val(out'.section))
            \/ UnknownColumnCall(Val(out'.section))
            \/ UnknownTaskCall(Val(out'.section)))]_vars

\* deleteTask was called on a Board with Tasks and wrote the Board it found:
\* its ids named no Task
C11_Witness ==
    /\ out.op = "deleteTask"
    /\ out.write = "ok"
    /\ TaskCount(sections) > 0
    /\ sections = prev.sections

\* C14: right after the component is mounted, the Board is the seed Board when
\* the slot holds nothing or a text JSON.parse rejects, and is the value the
\* slot's text parses to otherwise; mounting throws nothing and leaves the
\* slot alone.
C14_StoreInitialization ==
    out.op = "mount" =>
        /\ ~out.threw
        /\ out.write = "none"
        /\ IF IsNull(slot) THEN sections = SeedBoard
           ELSE LET r == JSONparse(Val(slot)) IN
                IF r.ok THEN sections = BoardOf(r.val) ELSE sections = SeedBoard

\* the component was mounted over a slot whose text does not parse
C14_Witness ==
    /\ out.op = "mount"
    /\ slot = Some(CorruptText)
    /\ ~JSONparse(CorruptText).ok
    /\ sections = SeedBoard

\* the Tasks of a sequence that are not completed, in their order
RECURSIVE Pending(_)
Pending(tasks) ==
    IF tasks = <<>> THEN <<>>
    ELSE IF Head(tasks).completed THEN Pending(Tail(tasks))
    ELSE <<Head(tasks)>> \o Pending(Tail(tasks))

\* C15: clearCompletedTasks(sectionId) leaves in every Column of the Sections
\* with that id the Tasks that are not completed, in their order, and no
\* completed Task; it keeps those Sections' ids, titles and Columns' ids and
\* titles, and leaves every other Section as it was.
C15_ClearCompletedFrame ==
    [][(/\ out'.op = "clearCompletedTasks"
        /\ IsArray(sections)
        /\ clearCompletedTasks(Val(out'.section)))
       => /\ IsArray(sections')
          /\ Len(sections'.v) = Len(sections.v)
          /\ \A i \in 1..Len(sections.v) :
               LET old == sections.v[i]
                   new == sections'.v[i]
               IN  IF old.id # Val(out'.section) THEN new = old
                   ELSE /\ new.id = old.id /\ new.title = old.title
                        /\ Len(new.columns) = Len(old.columns)
                        /\ \A j \in 1..Len(old.columns) :
                             /\ new.columns[j].id = old.columns[j].id
                             /\ new.columns[j].title = old.columns[j].title
                             /\ new.columns[j].tasks = Pending(old.columns[j].tasks)
                             /\ \A k \in 1..Len(new.columns[j].tasks) :
                                  ~new.columns[j].tasks[k].completed]_vars

\* clearCompletedTasks took a completed Task off a Section and left a Task
\* that is not completed on it, on a Board with another Section
C15_Witness ==
    /\ out.op = "clearCompletedTasks"
    /\ IsArray(sections)
    /\ TaskCount(sections) < TaskCount(prev.sections)
    /\ \E section \in SectionsNamed(sections, Val(out.section)) :
         \E j \in 1..Len(section.columns) : section.columns[j].tasks # <<>>
    /\ \E section \in Range(sections.v) : section.id # Val(out.section)

\* the step took the Board to one that differs from it in nothing but the
\* completed flag, flipped, of the Tasks with the id taskId in the Columns
\* with the id columnId of the Sections with the id sectionId
OnlyFlagFlipped(sectionId, columnId, taskId) ==
    /\ IsArray(sections')
    /\ Len(sections'.v) = Len(sections.v)
    /\ \A i \in 1..Len(sections.v) :
         LET old == sections.v[i]
             new == sections'.v[i]
         IN  /\ new.id = old.id /\ new.title = old.title
             /\ Len(new.columns) = Len(old.columns)
             /\ \A j \in 1..Len(old.columns) :
                  LET oldCol == old.columns[j]
                      newCol == new.columns[j]
                  IN  /\ newCol.id = oldCol.id /\ newCol.title = oldCol.title
                      /\ Len(newCol.tasks) = Len(oldCol.tasks)
                      /\ \A k \in 1..Len(oldCol.tasks) :
                           LET task == oldCol.tasks[k] IN
                           /\ newCol.tasks[k].id = task.id
                           /\ newCol.tasks[k].title = task.title
                           /\ newCol.tasks[k].completed =
                                IF old.id = sectionId /\ oldCol.id = columnId
                                   /\ task.id = taskId
                                THEN ~task.completed
                                ELSE task.completed

\* C16: toggleTaskCompletion(sectionId, columnId, taskId) flips the completed
\* flag of the Task those ids name and changes nothing else on the Board.
C16_ToggleFlipsOnlyTheFlag ==
    [][(out'.op = "toggleTaskCompletion" /\ IsArray(sections)) =>
         \A a \in {b \in TaskAddrs : b[1] = Val(out'.section)} :
           OnlyFlagFlipped(a[1], a[2], a[3]) \/ ~toggleTaskCompletion(a[1], a[2], a[3])]_vars

\* toggleTaskCompletion took a completed Task of the Board to not completed
C16_Witness ==
    /\ out.op = "toggleTaskCompletion"
    /\ IsArray(sections)
    /\ sections # prev.sections
    /\ \E d \in Rendered :
         /\ ~d.task.completed
         /\ d.fromSection = Val(out.section)
         /\ \E old \in Range(Tasks(prev.sections.v)) :
              old = [d.task EXCEPT !.completed = TRUE]

\* C19: clearCompletedTasks is idempotent.  The Board a call of
\* clearCompletedTasks(sectionId) leaves is one that clearing the same Section
\* again maps to itself, and a second call in a row with the same section id
\* leaves the Board the first call left.
C19_ClearCompletedIdempotent ==
    [][(/\ out'.op = "clearCompletedTasks"
        /\ IsArray(sections)
        /\ clearCompletedTasks(Val(out'.section)))
       => /\ IsArray(sections')
          /\ clearCompletedTasksValue(sections'.v, Val(out'.section)) = sections'.v
          /\ (out.op = "clearCompletedTasks" /\ out.section = out'.section /\ ~out.threw)
               => sections' = sections]_vars

\* clearCompletedTasks was called twice in a row on a Section from which the
\* first call had taken a Task
C19_Witness ==
    /\ out.op = "clearCompletedTasks"
    /\ steps = 2
    /\ IsArray(sections)
    /\ sections = prev.sections
    /\ SectionsNamed(sections, Val(out.section)) # {}
    /\ <<"task", "t3">> \in retired
    /\ TaskCount(sections) > 0

\* the Tasks of a sequence whose id is not taskId, in their order
RECURSIVE Others(_, _)
Others(tasks, taskId) ==
    IF tasks = <<>> THEN <<>>
    ELSE IF Head(tasks).id = taskId THEN Others(Tail(tasks), taskId)
    ELSE <<Head(tasks)>> \o Others(Tail(tasks), taskId)

\* the step is a drop of the pending drag on the Column it was started from,
\* a Column of the Board
SameColumnDrop ==
    /\ out'.op = "handleDrop"
    /\ ~IsNull(draggedTask)
    /\ IsArray(sections)
    /\ <<Val(draggedTask).fromSection, Val(draggedTask).fromColumn>> \in SectionColumns
    /\ handleDrop(Val(draggedTask).fromSection, Val(draggedTask).fromColumn)

\* (i, j) of the Columns of the Board the pending drag was started from
SourceColumns ==
    {<<i, j>> \in (1..Len(sections.v)) \X (1..8) :
       /\ sections.v[i].id = Val(draggedTask).fromSection
       /\ j <= Len(sections.v[i].columns)
       /\ sections.v[i].columns[j].id = Val(draggedTask).fromColumn}

LastIsDragged(sectionId, columnId) ==
    /\ IsArray(sections')
    /\ \A i \in 1..Len(sections'.v) :
         sections'.v[i].id = sectionId =>
           \A j \in 1..Len(sections'.v[i].columns) :
             LET col == sections'.v[i].columns[j] IN
             col.id = columnId =>
               /\ col.tasks # <<>>
               /\ col.tasks[Len(col.tasks)] = Val(draggedTask).task

\* C20: the Task a drop puts into the destination Column is the value taken
\* at drag start.  No handler but handleDragStart and handleDrop changes the
\* pending drag, so a toggle or a rename between drag start and drop does not
\* reach it, and a drop on a Column of the Board leaves the pending drag's
\* Task, flag and title as they were at drag start, last in that Column.
C20_DropInsertsTheDragStartValue ==
    [][/\ out'.op \notin {"handleDragStart", "handleDrop"} => draggedTask' = draggedTask
       /\ (out'.op = "handleDrop" /\ ~IsNull(draggedTask) /\ IsArray(sections)) =>
            \A columnId \in {c \in ColumnIdArgs :
                               <<Val(out'.section), c>> \in SectionColumns} :
              \/ LastIsDragged(Val(out'.section), columnId)
              \/ ~handleDrop(Val(out'.section), columnId)]_vars

\* a Task whose flag or title was changed after its drag had started was
\* dropped: the Board holds it as it was at drag start, the change undone
C20_Witness ==
    /\ out.op = "handleDrop"
    /\ ~IsNull(prev.draggedTask)
    /\ IsArray(sections)
    /\ \E old \in Range(Tasks(prev.sections.v)) :
         /\ old.id = Val(prev.draggedTask).task.id
         /\ old # Val(prev.draggedTask).task
    /\ \E new \in Range(Tasks(sections.v)) : new = Val(prev.draggedTask).task
    /\ \A new \in Range(Tasks(sections.v)) :
         new.id = Val(prev.draggedTask).task.id => new = Val(prev.draggedTask).task

\* C12: from a successful copy of Section S until two seconds after the most
\* recent successful copy, the copied indicator is set, and it names the
\* Section of that most recent copy; no timer of an earlier copy clears it.
C12_CopiedIndicatorHolds ==
    (~IsNull(copied) /\ clock < Val(copied).at + CopiedSeconds)
        => copiedSection = Some(Val(copied).section)

\* the lines of a Markdown text: its pieces between the newlines
RECURSIVE Split(_, _)
Split(text, line) ==
    IF text = <<>> THEN <<line>>
    ELSE IF Head(text) = "\n" THEN <<line>> \o Split(Tail(text), <<>>)
    ELSE Split(Tail(text), Append(line, Head(text)))

SplitLines(text) == IF text = <<>> THEN <<>> ELSE Split(text, <<>>)

\* the Tasks of a sequence of Columns, Column by Column and in each Column
\* Task by Task, each with the title of its Column
RECURSIVE Entries(_)
Entries(columns) ==
    IF columns = <<>> THEN <<>>
    ELSE [k \in 1..Len(Head(columns).tasks) |->
            [column |-> Head(columns).title, task |-> Head(columns).tasks[k]]]
         \o Entries(Tail(columns))

\* the text is the Markdown export of the Section
IsMarkdownOf(text, section) ==
    LET lines == SplitLines(text)
        entries == Entries(section.columns)
    IN  /\ Len(lines) = Len(entries)
        /\ \A k \in 1..Len(entries) :
             lines[k] = <<"- ", IF entries[k].task.completed THEN "[x]" ELSE "[ ]", " ",
                          entries[k].column, ": ", entries[k].task.title>>
        /\ text # <<>> => text[Len(text)] # "\n"

C13_ExportImportRoundTrip ==
    [][out'.op = "onload" =>
         \A i \in 1..Len(reading) :
           onload(i) =>
             \A d \in Range(downloads) :
               (d.text = reading[i] /\ IsArray(d.of))
                 => /\ out'.notice = "none"
                    /\ sections' = d.of]_vars

\* an exported Board with Tasks was imported and accepted
C13_Witness ==
    /\ out.op = "onload"
    /\ out.notice = "none"
    /\ downloads # <<>>
    /\ IsArray(sections)
    /\ sections = downloads[1].of
    /\ TaskCount(sections) > 0
    /\ \E tok \in Range(downloads[1].text) : tok.t = "space"

\* C21: in every state, from store initialization on and after every handler
\* and import, the Board held in memory is an array of Sections; a slot
\* content that parses to a value that is no array is never the Board.
C21_BoardIsAnArray ==
    IsArray(sections)

\* C22: a drop consumes the pending drag.  A drop with no pending drag
\* leaves the Board, the slot and draggedTask as they are; after a drop that
\* had a pending drag, draggedTask is null.  So a second drop with no drag
\* start in between changes nothing.
C22_DropConsumesThePendingDrag ==
    [][\/ out'.op # "handleDrop"
       \/ IF IsNull(draggedTask)
          THEN sections' = sections /\ slot' = slot /\ draggedTask' = Null
          ELSE draggedTask' = Null]_vars

\* a drag start, a drop that moved the Task to another Column, and a second
\* drop that found no pending drag and left the Board as the first made it
C22_Witness ==
    /\ out.op = "handleDrop"
    /\ out.write = "none"
    /\ ~out.threw
    /\ IsNull(prev.draggedTask)
    /\ IsNull(draggedTask)
    /\ drags = 1
    /\ steps = 2
    /\ sections = prev.sections
    /\ sections \notin {SeedBoard, SavedBoard, BareBoard}
    /\ lastWrite = "ok"

\* the Tasks of the last Column of every Section with the id that has more
\* than one Column
Discarded(secs, sectionId) ==
    Flatten(Map(LAMBDA section :
                  IF section.id = sectionId /\ Len(section.columns) > 1
                  THEN section.columns[Len(section.columns)].tasks
                  ELSE <<>>,
                secs))

\* C23: removeColumn(sectionId) on a Section with more than one Column
\* discards the last Column with every Task it holds, empty or not: the
\* number of Tasks on the Board drops by exactly the number of Tasks of that
\* last Column, and every Column left on the Board holds the Tasks it held,
\* so none of the discarded Tasks is moved to another Column.
C23_RemoveColumnDiscardsItsTasks ==
    [][\/ out'.op # "removeColumn"
       \/ ~IsArray(sections)
       \/ LET sectionId == Val(out'.section) IN
          /\ IsArray(sections')
          /\ TaskCount(sections')
               = TaskCount(sections) - Len(Discarded(sections.v, sectionId))
          /\ Len(sections'.v) = Len(sections.v)
          /\ \A i \in 1..Len(sections.v) :
               LET old == sections.v[i].columns
                   new == sections'.v[i].columns
               IN  /\ Len(new) = IF sections.v[i].id = sectionId /\ Len(old) > 1
                                 THEN Len(old) - 1 ELSE Len(old)
                   /\ \A j \in 1..Len(new) : new[j] = old[j]]_vars

\* removeColumn took a last Column that held a Task off a Section, and the
\* Board has fewer Tasks than it had
C23_Witness ==
    /\ out.op = "removeColumn"
    /\ IsArray(sections)
    /\ IsArray(prev.sections)
    /\ Discarded(prev.sections.v, Val(out.section)) # <<>>
    /\ TaskCount(sections) < TaskCount(prev.sections)
    /\ TaskCount(sections) > 0

====
